---- MODULE Spec2Model ----
(***************************************************************************)
(* Minaret (custom_components/azan): prayer-time normalisation, next-      *)
(* prayer selection and the single-timer "fire, play, re-arm" loop, with   *)
(* the asynchronous playback dispatch, the coordinator refreshes and the   *)
(* unload/reload of the config entry.                                      *)
(*                                                                         *)
(* Time is counted in minutes since 00:00 of day 0.  A raw time string is  *)
(* a sequence of one-character strings.  A "generation" is one             *)
(* async_setup_entry of the config entry: it owns one store dict and one   *)
(* coordinator; coroutines and timer callbacks keep the generation they    *)
(* captured, while _schedule_next_prayer always looks the store up again.  *)
(***************************************************************************)
EXTENDS Integers, Sequences, FiniteSets, Bags, TLC

(***************************** bounds *************************************)
\* last calendar day the clock may reach (days are 0..MaxDay)
MaxDay == 1
\* number of async_setup_entry calls (setup, then reloads)
MaxGen == 2
\* number of _play_azan coroutines that may exist at once
MaxPlays == 2
\* number of service calls and periodic refreshes in one behaviour
MaxOps == 1
\* number of coordinator refreshes awaiting their fetch at once
MaxRefreshes == 1
\* last hour of the last day the clock may reach
MaxHour == 6
\* number of consecutive calls of _schedule_next_prayer in SelectSpec
MaxArms == 2
\* number of service calls, periodic refreshes and unloads in PairSpec
MaxPairOps == 1

(************************** program constants *****************************)
PRAYER_ORDER == <<"Fajr", "Sunrise", "Dhuhr", "Asr", "Maghrib", "Isha">>
PrayerNames == {PRAYER_ORDER[i] : i \in 1..Len(PRAYER_ORDER)}
\* SERVICE_PLAY_SCHEMA: the names the play_azan service accepts
ServiceNames == {"Fajr", "Dhuhr", "Asr", "Maghrib", "Isha", "Test"}
\* timedelta(minutes=5) of the playback reset timer
ResetMinutes == 5
MinutesPerDay == 24 * 60

NoData == [none |-> TRUE]
NoHandle == 0
NoName == "none"

Day(t) == t \div MinutesPerDay
Min(S) == CHOOSE x \in S : \A y \in S : x <= y

(************************ raw time strings ********************************)
Digits == <<"0", "1", "2", "3", "4", "5", "6", "7", "8", "9">>
IsDigit(c) == \E i \in 1..10 : Digits[i] = c
DigitVal(c) == (CHOOSE i \in 1..10 : Digits[i] = c) - 1

\* str.strip(): drop leading and trailing blanks
RECURSIVE LStrip(_)
LStrip(s) == IF s # <<>> /\ Head(s) = " " THEN LStrip(Tail(s)) ELSE s
RECURSIVE RStrip(_)
RStrip(s) ==
    IF s # <<>> /\ s[Len(s)] = " " THEN RStrip(SubSeq(s, 1, Len(s) - 1)) ELSE s
Strip(s) == RStrip(LStrip(s))

\* str.split(c): the parts between the occurrences of c
RECURSIVE SplitAcc(_, _, _)
SplitAcc(s, c, cur) ==
    IF s = <<>> THEN <<cur>>
    ELSE IF Head(s) = c THEN <<cur>> \o SplitAcc(Tail(s), c, <<>>)
    ELSE SplitAcc(Tail(s), c, Append(cur, Head(s)))
Split(s, c) == SplitAcc(s, c, <<>>)

\* A conversion that reads the last digit only; C19 must tell it from ToInt.
ToIntLast(p) == IF p = <<>> THEN 0 ELSE DigitVal(p[Len(p)])
\* int(): a non-empty run of decimal digits, anything else raises ValueError
IsInt(p) == p # <<>> /\ \A i \in 1..Len(p) : IsDigit(p[i])
RECURSIVE ToInt(_)
ToInt(p) ==
    IF p = <<>> THEN 0
    ELSE 10 * ToInt(SubSeq(p, 1, Len(p) - 1)) + DigitVal(p[Len(p)])

TimeClean(time_str) == Strip(Split(Split(Strip(time_str), " ")[1], "(")[1])

\* An afternoon rule that does not look at the name; C17 must tell it from
\* PmHour.
PmHourAny(name, hour) == IF hour < 10 THEN hour + 12 ELSE hour
\* the afternoon rule: Asr, Maghrib, Isha with hour < 10 get 12 added
PmHour(name, hour) ==
    IF name \in {"Asr", "Maghrib", "Isha"} /\ hour < 10 THEN hour + 12 ELSE hour

\* One entry of the loop of _normalize_times: "skip" (continue), "raise"
\* (int() or datetime.replace() raises ValueError) or "ok" with the time.
ParseEntry(name, time_str) ==
    LET parts == Split(TimeClean(time_str), ":") IN
    IF Len(parts) < 2 THEN [st |-> "skip", hour |-> 0, minute |-> 0]
    ELSE IF ~(IsInt(parts[1]) /\ IsInt(parts[2]))
         THEN [st |-> "raise", hour |-> 0, minute |-> 0]
    ELSE LET hour == PmHour(name, ToInt(parts[1]))
             minute == ToInt(parts[2])
         IN IF hour > 23 \/ minute > 59
            THEN [st |-> "raise", hour |-> 0, minute |-> 0]
            ELSE [st |-> "ok", hour |-> hour, minute |-> minute]

OrderIndex(name) ==
    IF name \in PrayerNames
    THEN CHOOSE i \in 1..Len(PRAYER_ORDER) : PRAYER_ORDER[i] = name
    ELSE 99

\* The entries left in the order of the mapping; C16 must tell it from
\* SortEntries.
Unsorted(raw) == raw
\* sorted(raw.items(), key=index in PRAYER_ORDER or 99): a stable sort
RECURSIVE InsertSorted(_, _)
InsertSorted(e, s) ==
    IF s = <<>> THEN <<e>>
    ELSE IF OrderIndex(e[1]) < OrderIndex(Head(s)[1]) THEN <<e>> \o s
    ELSE <<Head(s)>> \o InsertSorted(e, Tail(s))
RECURSIVE SortEntries(_)
SortEntries(raw) ==
    IF raw = <<>> THEN <<>>
    ELSE InsertSorted(raw[Len(raw)], SortEntries(SubSeq(raw, 1, Len(raw) - 1)))

\* enabled_map.get(name, False) on the configured prayer toggles
EnabledMap(cfg, name) == IF name \in PrayerNames THEN cfg.enabled[name] ELSE FALSE

\* The loop body of _normalize_times over the sorted entries; t is
\* datetime.now(), whose date the prayer times are put on.
RECURSIVE NormalizeLoop(_, _, _)
NormalizeLoop(entries, cfg, t) ==
    IF entries = <<>> THEN [ok |-> TRUE, prayers |-> <<>>]
    ELSE LET name == Head(entries)[1]
             rest == NormalizeLoop(Tail(entries), cfg, t)
             p    == ParseEntry(name, Head(entries)[2])
         IN IF name \notin PrayerNames \/ p.st = "skip" THEN rest
            ELSE IF p.st = "raise" \/ ~rest.ok THEN [ok |-> FALSE, prayers |-> <<>>]
            ELSE [ok |-> TRUE,
                  prayers |-> <<[name |-> name,
                                 time |-> Day(t) * MinutesPerDay + p.hour * 60 + p.minute,
                                 hour |-> p.hour,
                                 minute |-> p.minute,
                                 enabled |-> EnabledMap(cfg, name)]>> \o rest.prayers]

NormalizeTimes(raw, cfg, t) == NormalizeLoop(SortEntries(raw), cfg, t)


(***************************** the fetches ********************************)
SOURCE_ALADHAN == "aladhan"
SOURCE_QATAR_MOI == "qatar_moi"

\* Qatar MOI name normalization
NAME_MAP ==
    [fajer |-> "Fajr", fajr |-> "Fajr", sunrise |-> "Sunrise", dhuhr |-> "Dhuhr",
     zuhr |-> "Dhuhr", asr |-> "Asr", maghrib |-> "Maghrib", isha |-> "Isha"]

\* str.lower() on the header texts that occur here
Lower(h) ==
    CASE h \in {"Fajr", "FAJR"} -> "fajr"
      [] h = "Fajer" -> "fajer"
      [] h = "Sunrise" -> "sunrise"
      [] h \in {"Dhuhr", "DHUHR"} -> "dhuhr"
      [] h = "Zuhr" -> "zuhr"
      [] h = "Asr" -> "asr"
      [] h = "Maghrib" -> "maghrib"
      [] h \in {"Isha", "ISHA"} -> "isha"
      [] h = "Date" -> "date"
      [] OTHER -> h

\* NAME_MAP.get(header.lower(), header)
MapName(header) ==
    IF Lower(header) \in DOMAIN NAME_MAP THEN NAME_MAP[Lower(header)] ELSE header

\* the keys of a mapping kept as a sequence of key/value pairs
Keys(m) == {m[i][1] : i \in 1..Len(m)}
\* m[key]
Lookup(m, key) == m[CHOOSE i \in 1..Len(m) : m[i][1] = key][2]
\* m[key] = val on a dict: a key keeps its place, a new key goes last
DictPut(m, key, val) ==
    IF key \in Keys(m)
    THEN [i \in 1..Len(m) |-> IF m[i][1] = key THEN <<key, val>> ELSE m[i]]
    ELSE Append(m, <<key, val>>)

\* the loop "for i, header in enumerate(headers): if i < len(cells)"
RECURSIVE PairUp(_, _, _, _)
PairUp(headers, cells, i, times) ==
    IF i > Len(headers) THEN times
    ELSE PairUp(headers, cells, i + 1,
                IF i <= Len(cells)
                THEN DictPut(times, MapName(headers[i]), cells[i])
                ELSE times)

FetchFailed == [ok |-> FALSE, raw |-> <<>>]
NonEmpty(h) == h # ""

\* A faulty fetch that returns an empty mapping instead of raising; C11
\* must tell it from FetchQatarMoi.
FetchQatarMoiEmpty(resp) ==
    IF resp.status >= 400 THEN FetchFailed
    ELSE [ok |-> TRUE,
          raw |-> PairUp(SelectSeq(resp.headers, NonEmpty), resp.cells, 1, <<>>)]

\* _fetch_qatar_moi: raise_for_status, the non-empty header texts paired
\* with the cells, UpdateFailed when there is no pair
FetchQatarMoi(resp) ==
    IF resp.status >= 400 THEN FetchFailed
    ELSE LET times == PairUp(SelectSeq(resp.headers, NonEmpty), resp.cells, 1, <<>>)
         IN IF times = <<>> THEN FetchFailed ELSE [ok |-> TRUE, raw |-> times]

\* _fetch_aladhan: raise_for_status, then the six timings by key; a missing
\* key raises KeyError
FetchAladhan(resp) ==
    IF resp.status >= 400 THEN FetchFailed
    ELSE IF ~(PrayerNames \subseteq Keys(resp.timings)) THEN FetchFailed
    ELSE [ok |-> TRUE,
          raw |-> [i \in 1..Len(PRAYER_ORDER) |->
                      <<PRAYER_ORDER[i], Lookup(resp.timings, PRAYER_ORDER[i])>>]]

\* the try block of _async_update_data: the fetch of the configured source;
\* any exception becomes UpdateFailed
Fetch(cfg, resp) ==
    IF cfg.source = SOURCE_QATAR_MOI THEN FetchQatarMoi(resp) ELSE FetchAladhan(resp)

(************************* inputs of the model ****************************)
\* entry.data/entry.options: the prayer source, the prayer toggles, the
\* Sunrise offset and whether a playback target (media player or notify
\* service) is set
DefaultEnabled == [n \in PrayerNames |-> n # "Sunrise"]
Configs ==
    { [source |-> SOURCE_QATAR_MOI, enabled |-> DefaultEnabled, offset |-> 0,
       target |-> TRUE],
      [source |-> SOURCE_ALADHAN,
       enabled |-> [DefaultEnabled EXCEPT !["Sunrise"] = TRUE, !["Fajr"] = FALSE],
       offset |-> 30, target |-> FALSE] }

\* the raw mappings the fetches below end in
RawMorning ==
    << <<"Fajr", <<"0", "5", ":", "0", "0">> >>,
       <<"Sunrise", <<"0", "6", ":", "3", "0">> >>,
       <<"Dhuhr", <<"1", "2", ":", "0", "0">> >> >>
RawEvening ==
    << <<"Isha", <<"0", "7", ":", "4", "5">> >>,
       <<"Date", <<"x">> >>,
       <<"Fajr", <<"0", "5", ":", "0", "0", " ", "(", "A", "S", "T", ")">> >> >>

\* What a provider can answer: the HTTP status, the <th> and <td> texts of
\* the Qatar MOI page, and the key/value pairs of data.timings of AlAdhan.
Response(status, headers, cells, timings) ==
    [status |-> status, headers |-> headers, cells |-> cells, timings |-> timings]
QatarMorning ==
    Response(200, <<"Fajr", "Sunrise", "Dhuhr">>,
             <<RawMorning[1][2], RawMorning[2][2], RawMorning[3][2]>>, <<>>)
QatarEvening ==
    Response(200, <<"ISHA", "", "Date", "Fajer">>,
             <<RawEvening[1][2], RawEvening[2][2], RawEvening[3][2]>>, <<>>)
\* an AlAdhan answer: no table in it, all six timings
AladhanDay ==
    Response(200, <<>>, <<>>,
             << <<"Isha", <<"1", "9", ":", "4", "5">> >>,
                <<"Fajr", <<"0", "5", ":", "0", "0">> >>,
                <<"Sunrise", <<"0", "6", ":", "3", "0">> >>,
                <<"Dhuhr", <<"1", "2", ":", "0", "0">> >>,
                <<"Asr", <<"1", "5", ":", "1", "5">> >>,
                <<"Maghrib", <<"1", "8", ":", "0", "0",
                               " ", "(", "+", "0", "3", ")">> >>,
                <<"Midnight", <<"2", "3", ":", "3", "0">> >> >>)
\* a server error
ServerError == Response(503, <<>>, <<>>, <<>>)
Responses == {QatarMorning, QatarEvening, AladhanDay, ServerError}

\* the names a play_azan service call is made with
PlayInputs == {"Dhuhr", "Test"}

\* the time of the first setup; afterwards the clock moves from one timer
\* time to the next
StartTime == 4 * 60

Gens == 1..MaxGen

\* the clock stops here
LastInstant == MaxDay * MinutesPerDay + MaxHour * 60

(***************************** state **************************************)
VARIABLES
    now,        \* the wall clock, minutes since 00:00 of day 0
    config,     \* {**entry.data, **entry.options}
    loaded,     \* hass.data[DOMAIN] holds a store for the entry
    unloading,  \* async_unload_entry is awaiting async_unload_platforms
    gen,        \* the generation of the store in hass.data (setups so far)
    store,      \* per generation: the store dict
    data,       \* per generation: coordinator.data (NoData or a PrayerData)
    timers,     \* outstanding async_track_point_in_time callbacks
    plays,      \* the bag of _play_azan coroutines: [pc, name, gen, origin]
    refreshes,  \* coordinator.async_refresh() calls awaiting their fetch
    ops,        \* service calls and periodic refreshes so far
    last,       \* the step taken last and the coordinator data it found
    probe,      \* the input a function of the program is applied to
    answer      \* what the function returned for probe

vars == <<now, config, loaded, unloading, gen, store, data, timers, plays,
          refreshes, ops, last, probe, answer>>

InitStore ==
    [unsub_timer |-> NoHandle, playback_reset_unsub |-> NoHandle,
     is_playing |-> FALSE, currently_playing |-> NoName]
\* op: the step; name, origin: the prayer and who asked for it; gen: the
\* generation of the coordinator the step worked on; date, played: that
\* coordinator's data.date and data.played_today before the step
Last(op, name, origin, g, d) ==
    [op |-> op, name |-> name, origin |-> origin, gen |-> g,
     date |-> IF d = NoData THEN -1 ELSE d.date,
     played |-> IF d = NoData THEN {} ELSE d.played]
NoLast == Last("none", NoName, NoName, 0, NoData)

\* PrayerData.__init__: played_today starts empty
PrayerData(prayers, date) == [prayers |-> prayers, date |-> date, played |-> {}]

(******************** _schedule_next_prayer *******************************)
\* An offset taken off every prayer; C20 must tell it from ThisOffset.
ThisOffsetAll(cfg, name) == cfg.offset
\* Offset only applies to Sunrise; other prayers use zero offset
ThisOffset(cfg, name) == IF name = "Sunrise" THEN cfg.offset ELSE 0
TargetTime(cfg, prayer) == prayer.time - ThisOffset(cfg, prayer.name)

\* A selection that also takes a prayer whose time is now; C14 must tell it
\* from Eligible.
EligibleOrNow(d, cfg, t, i) ==
    /\ d.prayers[i].enabled
    /\ d.prayers[i].name \notin d.played
    /\ TargetTime(cfg, d.prayers[i]) >= t
\* A selection that does not look at the prayer's toggle; C29 must tell it
\* from Eligible.
EligibleAny(d, cfg, t, i) ==
    /\ d.prayers[i].name \notin d.played
    /\ TargetTime(cfg, d.prayers[i]) > t
\* the loop "find next enabled, unplayed prayer": the index of the first
\* prayer that is enabled, not played and whose target time is after t; 0
\* when the loop ends with next_prayer = None
Eligible(d, cfg, t, i) ==
    /\ d.prayers[i].enabled
    /\ d.prayers[i].name \notin d.played
    /\ TargetTime(cfg, d.prayers[i]) > t
NextPrayer(d, cfg, t) ==
    LET idx == {i \in 1..Len(d.prayers) : Eligible(d, cfg, t, i)}
    IN IF idx = {} THEN 0 ELSE Min(idx)

\* 00:01 of the present day; C15 must tell it from Tomorrow
TodayAtOne(t) == Day(t) * MinutesPerDay + 1
\* (now + 1 day).replace(hour=0, minute=1)
Tomorrow(t) == (Day(t) + 1) * MinutesPerDay + 1

\* a handle no outstanding timer and no stored (possibly stale) handle has
FreshId(tms, st) ==
    LET used == {tm.id : tm \in tms}
                \cup {st[g].unsub_timer : g \in Gens}
                \cup {st[g].playback_reset_unsub : g \in Gens}
    IN Min({i \in 1..(Cardinality(used) + 1) : i \notin used})

\* An unsub() that does nothing; C27 must tell it from Cancel.
CancelNothing(tms, h) == tms
\* unsub(): the timer with this handle is no longer outstanding
Cancel(tms, h) == {tm \in tms : tm.id # h}

\* The timer _schedule_next_prayer creates for coordinator.data d
NewTimer(id, g, d, cfg, t) ==
    LET i == NextPrayer(d, cfg, t) IN
    IF i = 0
    THEN [id |-> id, kind |-> "midnight", gen |-> g, name |-> NoName,
          at |-> Tomorrow(t)]
    ELSE [id |-> id, kind |-> "prayer", gen |-> g, name |-> d.prayers[i].name,
          at |-> TargetTime(cfg, d.prayers[i])]

\* _schedule_next_prayer(hass, entry) run at time t on timers tms, stores st
\* and coordinator data dat, with ld/g the store lookup in hass.data: the
\* timers and stores it leaves.
ScheduleNext(ld, g, tms, st, dat, cfg, t) ==
    IF ~ld THEN [timers |-> tms, store |-> st]
    ELSE LET h    == st[g].unsub_timer
             tms1 == IF h # NoHandle THEN Cancel(tms, h) ELSE tms
             st1  == [st EXCEPT ![g].unsub_timer = NoHandle]
         IN IF dat[g] = NoData THEN [timers |-> tms1, store |-> st1]
            ELSE LET tm == NewTimer(FreshId(tms1, st1), g, dat[g], cfg, t)
                 IN [timers |-> tms1 \cup {tm},
                     store |-> [st1 EXCEPT ![g].unsub_timer = tm.id]]

(***************************** Init ***************************************)
\* no input chosen, nothing returned yet
NoAnswer == [none |-> TRUE]

Init ==
    /\ now = StartTime
    /\ config \in Configs
    /\ loaded = FALSE
    /\ unloading = FALSE
    /\ gen = 0
    /\ store = [g \in Gens |-> InitStore]
    /\ data = [g \in Gens |-> NoData]
    /\ timers = {}
    /\ plays = EmptyBag
    /\ refreshes = {}
    /\ ops = 0
    /\ last = NoLast
    /\ probe = NoAnswer
    /\ answer = NoAnswer

\* A store dict and its coordinator live as long as hass.data, a coroutine
\* or a timer callback refers to them; after that they read as never used.
Referenced(g, ld, lg, tms, pl, rf) ==
    \/ ld /\ g = lg
    \/ \E tm \in tms : tm.gen = g
    \/ \E p \in BagToSet(pl) : p.gen = g
    \/ \E r \in rf : r.gen = g

\* The refreshes that still matter: those of the coordinator in hass.data,
\* and handle_refresh_times, which re-arms after its refresh.  The data of a
\* coordinator that left hass.data is read only by the fire guard of a timer
\* armed from it, which reads played_today; such a timer is due before the
\* day is over, so a refresh of that coordinator cannot change what is read.
Pending(ld, lg, rf) == {r \in rf : r.origin = "force" \/ (ld /\ r.gen = lg)}

\* The state after a step: timers tms, coroutines pl, refreshes rf0, stores
\* st and coordinator data dat, with ld/lg the store in hass.data.
Commit(ld, lg, st, dat, tms, pl, rf0) ==
    LET rf == Pending(ld, lg, rf0) IN
    /\ timers' = tms
    /\ plays' = pl
    /\ refreshes' = rf
    /\ store' = [g \in Gens |->
                    IF Referenced(g, ld, lg, tms, pl, rf) THEN st[g] ELSE InitStore]
    /\ data' = [g \in Gens |->
                    IF Referenced(g, ld, lg, tms, pl, rf) THEN dat[g] ELSE NoData]

(************************** setup and unload ******************************)
\* async_setup_entry: a new store and coordinator, the first refresh (a
\* failed first refresh raises ConfigEntryNotReady and nothing is armed:
\* not a step here), then _schedule_next_prayer.
SetupEntry(raw) ==
    /\ ~loaded
    /\ gen < MaxGen
    /\ LET g == gen + 1
           n == NormalizeTimes(raw, config, now)
       IN /\ n.ok
          /\ LET dat == [data EXCEPT ![g] = PrayerData(n.prayers, Day(now))]
                 st  == [store EXCEPT ![g] = InitStore]
                 r   == ScheduleNext(TRUE, g, timers, st, dat, config, now)
             IN /\ gen' = g
                /\ loaded' = TRUE
                /\ Commit(TRUE, g, r.store, dat, r.timers, plays, refreshes)
    /\ last' = NoLast
    /\ UNCHANGED <<now, config, probe, answer, unloading, ops>>

\* async_unload_entry up to its await: both timers of the store in
\* hass.data are cancelled; their handles stay in the store.  Only an entry
\* that can still be set up again is unloaded (MaxGen setups in all).
UnloadBegin ==
    /\ loaded
    /\ ~unloading
    /\ gen < MaxGen
    /\ unloading' = TRUE
    /\ timers' = Cancel(Cancel(timers, store[gen].unsub_timer),
                        store[gen].playback_reset_unsub)
    /\ last' = NoLast
    /\ UNCHANGED <<now, config, probe, answer, loaded, gen, store, data, plays, refreshes, ops>>

\* async_unload_entry after async_unload_platforms returned True: the
\* store is popped from hass.data.
UnloadEnd ==
    /\ unloading
    /\ unloading' = FALSE
    /\ loaded' = FALSE
    /\ Commit(FALSE, gen, store, data, timers, plays, refreshes)
    /\ last' = NoLast
    /\ UNCHANGED <<now, config, probe, answer, gen, ops>>

(****************************** _play_azan ********************************)
One(p) == SetToBag({p})

\* the played-set guard at the head of _play_azan
AlreadyPlayed(d, name) == name # "Test" /\ d # NoData /\ name \in d.played

\* _play_azan from its first line to its first await (or its return);
\* others are the other coroutines.  audio: the audio file selection and
\* its fallbacks found a file that exists (os.path.exists).
PlayBody(others, name, origin, audio) ==
    /\ UNCHANGED <<now, config, probe, answer, loaded, unloading, gen>>
    /\ IF ~loaded
       THEN \* store is None: return
            /\ Commit(loaded, gen, store, data, timers, others, refreshes)
            /\ last' = Last("play_no_store", name, origin, 0, NoData)
       ELSE IF AlreadyPlayed(data[gen], name)
       THEN \* already played: return
            /\ Commit(loaded, gen, store, data, timers, others, refreshes)
            /\ last' = Last("play_guard_skip", name, origin, gen, data[gen])
       ELSE IF ~audio
       THEN \* no audio file: _schedule_next_prayer and return
            LET r == ScheduleNext(loaded, gen, timers, store, data, config, now)
            IN /\ Commit(loaded, gen, r.store, data, r.timers, others, refreshes)
               /\ last' = Last("play_no_audio", name, origin, gen, data[gen])
          ELSE LET st == [store EXCEPT ![gen].is_playing = TRUE,
                                    ![gen].currently_playing = name]
            IN IF ~config.target
               THEN \* no media player / notify service configured: return
                    /\ Commit(loaded, gen, st, data, timers, others, refreshes)
                    /\ last' = Last("play_no_target", name, origin, gen, data[gen])
                       ELSE \* await hass.services.async_call(...)
                    /\ Commit(loaded, gen, st, data, timers,
                              others (+) One([pc |-> "dispatch", name |-> name,
                                              gen |-> gen, origin |-> origin]),
                              refreshes)
                    /\ last' = Last("play_dispatch", name, origin, gen, data[gen])

\* handle_play_azan: the play_azan service awaits _play_azan
ManualPlay(name) ==
    /\ loaded
    /\ BagCardinality(plays) < MaxPlays
    /\ ops < MaxOps
    /\ ops' = ops + 1
    /\ \E audio \in BOOLEAN : PlayBody(plays, name, "manual", audio)

\* the task created by _prayer_callback starts running
PlayStart(p) ==
    /\ BagIn(p, plays)
    /\ p.pc = "created"
    /\ UNCHANGED ops
    /\ \E audio \in BOOLEAN : PlayBody(plays (-) One(p), p.name, p.origin, audio)

\* A mark that does not spare Test; C21 must tell it from MarkPlayed.
MarkPlayedAll(dat, g, name) ==
    IF dat[g] # NoData THEN [dat EXCEPT ![g].played = @ \cup {name}] ELSE dat
\* "Mark prayer as played (avoid marking Test)" on the coordinator captured
MarkPlayed(dat, g, name) ==
    IF name # "Test" /\ dat[g] # NoData
    THEN [dat EXCEPT ![g].played = @ \cup {name}]
    ELSE dat

\* A faulty except branch that marks the prayer played and leaves the
\* playing status set; C6 must tell it from PlayExcept.
PlayExceptMarks(g, name) ==
    LET dat == MarkPlayed(data, g, name)
        r   == ScheduleNext(loaded, gen, timers, store, dat, config, now)
    IN [data |-> dat, store |-> r.store, timers |-> r.timers]

\* What the except branch of _play_azan leaves: the playing status of the
\* captured store cleared, the scheduler re-armed.
PlayExcept(g, name) ==
    LET st == [store EXCEPT ![g].is_playing = FALSE,
                            ![g].currently_playing = NoName]
        r  == ScheduleNext(loaded, gen, timers, st, data, config, now)
    IN [data |-> data, store |-> r.store, timers |-> r.timers]

\* The dispatch of coroutine p raised.
PlayFailed(p) ==
    /\ BagIn(p, plays)
    /\ p.pc = "dispatch"
    /\ LET r == PlayExcept(p.gen, p.name)
       IN Commit(loaded, gen, r.store, r.data, r.timers, plays (-) One(p),
                 refreshes)
    /\ last' = Last("play_failed", p.name, p.origin, p.gen, data[p.gen])
    /\ UNCHANGED <<now, config, probe, answer, loaded, unloading, gen, ops>>

\* A faulty tail that re-arms before it marks the prayer played; C5 must
\* tell it from PlayTail.
PlayTailRearmFirst(g, name) ==
    LET tms1 == Cancel(timers, store[g].playback_reset_unsub)
        id   == FreshId(tms1, store)
        tms2 == tms1 \cup {[id |-> id, kind |-> "reset", gen |-> g,
                            name |-> name, at |-> now + ResetMinutes]}
        st   == [store EXCEPT ![g].playback_reset_unsub = id]
        r    == ScheduleNext(loaded, gen, tms2, st, data, config, now)
    IN [data |-> MarkPlayed(data, g, name), store |-> r.store,
        timers |-> r.timers]

\* What the tail of _play_azan leaves after a dispatch that returned: the
\* prayer marked played, the reset timer replaced, the scheduler re-armed.
PlayTail(g, name) ==
    LET dat  == MarkPlayed(data, g, name)
        tms1 == Cancel(timers, store[g].playback_reset_unsub)
        id   == FreshId(tms1, store)
        tms2 == tms1 \cup {[id |-> id, kind |-> "reset", gen |-> g,
                            name |-> name, at |-> now + ResetMinutes]}
        st   == [store EXCEPT ![g].playback_reset_unsub = id]
        r    == ScheduleNext(loaded, gen, tms2, st, dat, config, now)
    IN [data |-> dat, store |-> r.store, timers |-> r.timers]

\* The dispatch of coroutine p returned.
PlaySucceeded(p) ==
    /\ BagIn(p, plays)
    /\ p.pc = "dispatch"
    /\ LET r == PlayTail(p.gen, p.name)
       IN Commit(loaded, gen, r.store, r.data, r.timers, plays (-) One(p),
                 refreshes)
    /\ last' = Last("play_succeeded", p.name, p.origin, p.gen, data[p.gen])
    /\ UNCHANGED <<now, config, probe, answer, loaded, unloading, gen, ops>>

(***************************** _stop_playback *****************************)
\* A faulty stop that clears the status only when its dispatch succeeded;
\* C36 must tell it from Stopped.
StoppedIfOk(st, g, ok) ==
    IF ok THEN [st EXCEPT ![g].is_playing = FALSE, ![g].currently_playing = NoName]
    ELSE st
\* the stores _stop_playback leaves: the playing status is cleared before
\* the stop is dispatched, and an exception out of the dispatch is logged
Stopped(st, g, ok) ==
    [st EXCEPT ![g].is_playing = FALSE, ![g].currently_playing = NoName]

\* handle_stop_playback: the stop_playback service awaits _stop_playback,
\* whose dispatch returns (ok) or raises; last.name is what was playing
StopPlayback(ok) ==
    /\ loaded
    /\ ops < MaxOps
    /\ ops' = ops + 1
    /\ Commit(loaded, gen, Stopped(store, gen, ok), data, timers, plays, refreshes)
    /\ last' = Last(IF ok THEN "stop_ok" ELSE "stop_failed",
                    store[gen].currently_playing, "manual", gen, data[gen])
    /\ UNCHANGED <<now, config, probe, answer, loaded, unloading, gen>>

(***************************** timer callbacks ****************************)
\* A timer that waits for the pending fetches; C23 must tell it from Due.
DueIdle(tm) == tm \in timers /\ tm.at <= now /\ refreshes = {}
\* the timer is outstanding and its time has come
Due(tm) == tm \in timers /\ tm.at <= now

\* the fire guard of _prayer_callback
FireGuard(d, name) == d # NoData /\ name \in d.played

\* A faulty guarded branch that returns without re-arming; C7 must tell it
\* from FireSkip.
FireSkipNoRearm(tm) == [timers |-> timers \ {tm}, store |-> store]

\* the guarded branch of _prayer_callback: _schedule_next_prayer and return
FireSkip(tm) == ScheduleNext(loaded, gen, timers \ {tm}, store, data, config, now)

\* _prayer_callback: the fire guard, else a task running _play_azan
FirePrayer(tm) ==
    /\ Due(tm)
    /\ tm.kind = "prayer"
    /\ IF FireGuard(data[tm.gen], tm.name)
       THEN LET r == FireSkip(tm)
            IN /\ Commit(loaded, gen, r.store, data, r.timers, plays, refreshes)
               /\ last' = Last("fire_skip", tm.name, "timer", tm.gen, data[tm.gen])
       ELSE /\ BagCardinality(plays) < MaxPlays
            /\ Commit(loaded, gen, store, data, timers \ {tm},
                      plays (+) One([pc |-> "created", name |-> tm.name,
                                     gen |-> 0, origin |-> "timer"]),
                      refreshes)
            /\ last' = Last("fire_prayer", tm.name, "timer", tm.gen, data[tm.gen])
    /\ UNCHANGED <<now, config, probe, answer, loaded, unloading, gen, ops>>

\* _midnight_refresh: a task running coordinator.async_refresh(), and at
\* once _schedule_next_prayer
FireMidnight(tm) ==
    /\ Due(tm)
    /\ tm.kind = "midnight"
    /\ Cardinality(Pending(loaded, gen,
                           refreshes \cup {[origin |-> "midnight", gen |-> tm.gen]}))
           <= MaxRefreshes
    /\ LET r == ScheduleNext(loaded, gen, timers \ {tm}, store, data, config, now)
       IN Commit(loaded, gen, r.store, data, r.timers, plays,
                 refreshes \cup {[origin |-> "midnight", gen |-> tm.gen]})
    /\ last' = Last("fire_midnight", NoName, "timer", tm.gen, NoData)
    /\ UNCHANGED <<now, config, probe, answer, loaded, unloading, gen, ops>>

\* _reset_playing, five minutes after a dispatch that returned
FireReset(tm) ==
    /\ Due(tm)
    /\ tm.kind = "reset"
    /\ LET st == IF store[tm.gen].currently_playing = tm.name
                 THEN [store EXCEPT ![tm.gen].is_playing = FALSE,
                                    ![tm.gen].currently_playing = NoName]
                 ELSE store
       IN Commit(loaded, gen, st, data, timers \ {tm}, plays, refreshes)
    /\ last' = Last("fire_reset", tm.name, "timer", tm.gen, NoData)
    /\ UNCHANGED <<now, config, probe, answer, loaded, unloading, gen, ops>>

(******************************* refresh **********************************)
\* A coordinator.async_refresh() starts its fetch: the 6-hourly update of
\* the coordinator ("periodic") or handle_refresh_times ("force").
RefreshStart(origin) ==
    /\ loaded
    /\ Cardinality(refreshes) < MaxRefreshes
    /\ ops < MaxOps
    /\ ops' = ops + 1
    /\ refreshes' = refreshes \cup {[origin |-> origin, gen |-> gen]}
    /\ last' = NoLast
    /\ UNCHANGED <<now, config, probe, answer, loaded, unloading, gen, store, data, timers,
                   plays>>

\* A faulty update that carries played_today over whatever the date; C9
\* must tell it from UpdateData.
UpdateDataCarry(old, raw, cfg, t) ==
    LET n == NormalizeTimes(raw, cfg, t)
        fresh == PrayerData(n.prayers, Day(t))
    IN IF ~n.ok THEN old
       ELSE IF old # NoData THEN [fresh EXCEPT !.played = old.played]
            ELSE fresh

\* A faulty update that never carries played_today over; C10 must tell it
\* from UpdateData.
UpdateDataFresh(old, raw, cfg, t) ==
    LET n == NormalizeTimes(raw, cfg, t)
    IN IF ~n.ok THEN old ELSE PrayerData(n.prayers, Day(t))

\* _async_update_data after the fetch returned raw, at time t, with
\* coordinator.data = old: the new coordinator.data.  A ValueError out of
\* _normalize_times fails the refresh and leaves the data as it was.
UpdateData(old, raw, cfg, t) ==
    LET n == NormalizeTimes(raw, cfg, t)
        fresh == PrayerData(n.prayers, Day(t))
    IN IF ~n.ok THEN old
       ELSE IF old # NoData /\ old.date = Day(t)
            THEN [fresh EXCEPT !.played = old.played]
            ELSE fresh

\* A faulty handler that re-arms from the data the refresh started with;
\* C32 must tell it from RefreshRearm.
RefreshRearmStale(origin, dat) ==
    IF origin = "force"
    THEN ScheduleNext(loaded, gen, timers, store, data, config, now)
    ELSE [timers |-> timers, store |-> store]
\* What follows the awaited refresh: handle_refresh_times calls
\* _schedule_next_prayer on the coordinator data dat the refresh left; the
\* periodic update and the task of _midnight_refresh call nothing.
RefreshRearm(origin, dat) ==
    IF origin = "force"
    THEN ScheduleNext(loaded, gen, timers, store, dat, config, now)
    ELSE [timers |-> timers, store |-> store]

\* The fetch of refresh r ends: ok with a raw mapping, or with an error.
\* handle_refresh_times then calls _schedule_next_prayer.
RefreshDone(r, ok, raw) ==
    /\ r \in refreshes
    /\ LET dat == IF ok
                  THEN [data EXCEPT ![r.gen] = UpdateData(@, raw, config, now)]
                  ELSE data
           s   == RefreshRearm(r.origin, dat)
       IN /\ Commit(loaded, gen, s.store, dat, s.timers, plays, refreshes \ {r})
          /\ last' = Last(IF ~ok THEN "fetch_failed"
                          ELSE IF NormalizeTimes(raw, config, now).ok
                          THEN "refresh_ok" ELSE "refresh_failed",
                          NoName, r.origin, r.gen, data[r.gen])
    /\ UNCHANGED <<now, config, probe, answer, loaded, unloading, gen, ops>>

(******************************** clock ***********************************)
\* The clock moves to the next timer time, up to LastInstant.  A due timer
\* fires and a created task starts before time moves on, and
\* async_unload_platforms returns.
Tick ==
    /\ \A tm \in timers : tm.at > now
    /\ \A p \in BagToSet(plays) : p.pc # "created"
    /\ ~unloading
    /\ LET later == {tm.at : tm \in {x \in timers : x.at <= LastInstant}}
       IN /\ later # {}
          /\ now' = Min(later)
    /\ last' = NoLast
    /\ UNCHANGED <<config, probe, answer, loaded, unloading, gen, store, data, timers, plays,
                   refreshes, ops>>

Next ==
    \/ \E resp \in Responses :
          Fetch(config, resp).ok /\ SetupEntry(Fetch(config, resp).raw)
    \/ UnloadBegin
    \/ UnloadEnd
    \/ \E name \in PlayInputs : ManualPlay(name)
    \/ \E ok \in BOOLEAN : StopPlayback(ok)
    \/ \E p \in BagToSet(plays) : PlayStart(p)
    \/ \E p \in BagToSet(plays) : PlayFailed(p)
    \/ \E p \in BagToSet(plays) : PlaySucceeded(p)
    \/ \E tm \in timers : FirePrayer(tm)
    \/ \E tm \in timers : FireMidnight(tm)
    \/ \E tm \in timers : FireReset(tm)
    \/ \E origin \in {"periodic", "force"} : RefreshStart(origin)
    \/ \E r \in refreshes, resp \in Responses :
          RefreshDone(r, Fetch(config, resp).ok, Fetch(config, resp).raw)
    \/ Tick

Spec == Init /\ [][Next]_vars

\* What the event loop does on its own: due timers fire, created tasks
\* start, awaited service calls return or raise, time passes.  A fetch may
\* hang for ever.
Progress ==
    \/ UnloadEnd
    \/ \E p \in BagToSet(plays) : PlayStart(p) \/ PlayFailed(p) \/ PlaySucceeded(p)
    \/ \E tm \in timers : FirePrayer(tm) \/ FireMidnight(tm) \/ FireReset(tm)
    \/ Tick

\* The machine with an event loop that keeps running; service calls, setup
\* and unload happen or not.
FairSpec == Spec /\ WF_vars(Progress)

(********************* one refresh, as a function *************************)
\* f"{hour:02d}:{minute:02d}": two decimal digits each
TimeStr(hour, minute) ==
    <<Digits[(hour \div 10) + 1], Digits[(hour % 10) + 1], ":",
      Digits[(minute \div 10) + 1], Digits[(minute % 10) + 1]>>

\* coordinator.async_refresh() with coordinator.data = old, the provider
\* answering resp at time t: whether the update succeeded, and
\* coordinator.data afterwards.  UpdateFailed out of the fetch and a
\* ValueError out of _normalize_times both leave the data as it was.
Refresh(old, cfg, resp, t) ==
    LET f == Fetch(cfg, resp) IN
    IF ~f.ok THEN [ok |-> FALSE, data |-> old]
    ELSE [ok |-> NormalizeTimes(f.raw, cfg, t).ok,
          data |-> UpdateData(old, f.raw, cfg, t)]

\* a Qatar MOI page with this text in its Dhuhr column
QatarWithDhuhr(cell) ==
    Response(200, <<"Fajr", "Dhuhr", "Asr">>, <<TimeStr(5, 0), cell, TimeStr(3, 15)>>,
             <<>>)
\* texts that are not a time: letters, hour 25, minute 60, no colon
BadTimes ==
    { <<"a", "b", ":", "c", "d">>, <<"2", "5", ":", "0", "0">>,
      <<"1", "2", ":", "6", "0">>, <<"1", "2", "0", "0">> }
\* pages none of whose columns gives a prayer
QatarDateOnly == Response(200, <<"Date", "Day">>, <<<<"x">>, <<"y">>>>, <<>>)
QatarDashes ==
    Response(200, <<"Fajr", "Isha">>, <<<<"-", "-">>, <<"-", "-">>>>, <<>>)
\* a page with its columns out of order, one prayer under two spellings
QatarShuffled ==
    Response(200, <<"ISHA", "Zuhr", "Date", "Fajer", "Maghrib", "Sunrise", "FAJR", "Asr">>,
             <<TimeStr(7, 45), TimeStr(11, 30), <<"x">>, TimeStr(4, 10), TimeStr(6, 5),
               TimeStr(5, 40), TimeStr(4, 15), TimeStr(3, 0)>>, <<>>)
\* AlAdhan answers: a summer night with Isha after midnight, and one with a
\* timing missing
AladhanLateIsha ==
    Response(200, <<>>, <<>>,
             << <<"Fajr", TimeStr(2, 30)>>, <<"Sunrise", TimeStr(4, 45)>>,
                <<"Dhuhr", TimeStr(13, 10)>>, <<"Asr", TimeStr(17, 30)>>,
                <<"Maghrib", TimeStr(21, 50)>>, <<"Isha", TimeStr(0, 30)>> >>)
AladhanNoAsr ==
    Response(200, <<>>, <<>>,
             << <<"Fajr", TimeStr(5, 0)>>, <<"Sunrise", TimeStr(6, 30)>>,
                <<"Dhuhr", TimeStr(12, 0)>>, <<"Maghrib", TimeStr(18, 0)>>,
                <<"Isha", TimeStr(19, 45)>> >>)
NormResponses ==
    Responses \cup {QatarWithDhuhr(c) : c \in BadTimes}
              \cup {QatarDateOnly, QatarDashes, QatarShuffled, AladhanLateIsha,
                    AladhanNoAsr}

\* coordinator.data before the refresh: none yet, today's schedule with
\* Fajr played, or yesterday's schedule
OldSchedules(cfg, t) ==
    { NoData,
      [PrayerData(NormalizeTimes(RawMorning, cfg, t).prayers, Day(t))
          EXCEPT !.played = {"Fajr"}],
      [PrayerData(NormalizeTimes(RawMorning, cfg, t - MinutesPerDay).prayers,
                  Day(t) - 1)
          EXCEPT !.played = {"Fajr", "Dhuhr"}] }

\* the times of day the refresh runs at
NormTimes == {MinutesPerDay + 4 * 60, MinutesPerDay + 13 * 60}

\* nothing set up, no timer, no coroutine
Idle ==
    /\ loaded = FALSE
    /\ unloading = FALSE
    /\ gen = 0
    /\ store = [g \in Gens |-> InitStore]
    /\ data = [g \in Gens |-> NoData]
    /\ timers = {}
    /\ plays = EmptyBag
    /\ refreshes = {}
    /\ ops = 0
    /\ last = NoLast

NormInit ==
    /\ now \in NormTimes
    /\ config \in Configs
    /\ Idle
    /\ probe \in [resp : NormResponses, old : OldSchedules(config, now)]
    /\ answer = NoAnswer

\* the refresh runs on the probe
NormApply ==
    /\ answer = NoAnswer
    /\ answer' = Refresh(probe.old, config, probe.resp, now)
    /\ UNCHANGED <<now, config, probe, loaded, unloading, gen, store, data, timers,
                   plays, refreshes, ops, last>>

NormNext == NormApply

NormSpec == NormInit /\ [][NormNext]_vars

(************************ one arming, from any state **********************)
\* vol.Range(min=0, max=45) of the Sunrise offset
MaxOffset == 45

\* prayer toggles: the defaults, all on, all off, Sunrise and Isha only
EnabledChoices ==
    { DefaultEnabled,
      [n \in PrayerNames |-> TRUE],
      [n \in PrayerNames |-> FALSE],
      [n \in PrayerNames |-> n \in {"Sunrise", "Isha"}] }
SelectConfigs ==
    { [source |-> src, enabled |-> e, offset |-> o, target |-> TRUE] :
         src \in {SOURCE_QATAR_MOI, SOURCE_ALADHAN}, e \in EnabledChoices,
         o \in 0..MaxOffset }
\* the page of the end-to-end example: afternoon times on a 12-hour clock
QatarExample ==
    Response(200, <<"Fajr", "Dhuhr", "Asr", "Maghrib", "Isha">>,
             <<TimeStr(5, 12), TimeStr(12, 5), TimeStr(3, 30), TimeStr(6, 10),
               TimeStr(7, 45)>>, <<>>)
\* provider answers: a full day, a morning, one that gives no prayer, the
\* example, and a summer day of the far north with Isha after midnight
SelectResponses ==
    {AladhanDay, QatarMorning, QatarDateOnly, QatarExample, AladhanLateIsha}
PlayedChoices == {{}, {"Fajr"}, {"Sunrise", "Dhuhr"}, PrayerNames}
\* times of day, among them prayer times and Sunrise less an offset
SelectTimes ==
    {MinutesPerDay + m : m \in {0, 1, 4 * 60, 5 * 60, 5 * 60 + 30, 5 * 60 + 50,
                                6 * 60, 6 * 60 + 30, 12 * 60, 19 * 60 + 45,
                                23 * 60 + 59}}

\* async_setup_entry after the first refresh: the store is in hass.data, the
\* coordinator has data, nothing is armed yet
SelectInit ==
    /\ now \in SelectTimes
    /\ config \in SelectConfigs
    /\ loaded = TRUE
    /\ unloading = FALSE
    /\ gen = 1
    /\ store = [g \in Gens |-> InitStore]
    /\ \E resp \in SelectResponses, played \in PlayedChoices :
          /\ Fetch(config, resp).ok
          /\ probe = resp
          /\ data = [g \in Gens |->
                        IF g = 1
                        THEN [PrayerData(NormalizeTimes(Fetch(config, resp).raw,
                                                        config, now).prayers,
                                         Day(now))
                                 EXCEPT !.played = played]
                        ELSE NoData]
    /\ timers = {}
    /\ plays = EmptyBag
    /\ refreshes = {}
    /\ ops = 0
    /\ last = NoLast
    /\ answer = NoAnswer

\* _schedule_next_prayer(hass, entry), called MaxArms times in a row
Arm ==
    /\ ops < MaxArms
    /\ ops' = ops + 1
    /\ LET r == ScheduleNext(loaded, gen, timers, store, data, config, now)
       IN /\ timers' = r.timers
          /\ store' = r.store
    /\ last' = Last("arm", NoName, NoName, gen, data[gen])
    /\ UNCHANGED <<now, config, probe, answer, loaded, unloading, gen, data, plays,
                   refreshes>>

SelectNext == Arm

SelectSpec == SelectInit /\ [][SelectNext]_vars

(********************** one time string, parsed ***************************)
\* the shapes of a time text: HH:MM, HH:MM followed by a zone, HHMM
Forms == {"plain", "zone", "nocolon"}
Text(hour, minute, form) ==
    CASE form = "plain" -> TimeStr(hour, minute)
      [] form = "zone" -> TimeStr(hour, minute) \o <<" ", "(", "A", "S", "T", ")">>
      [] form = "nocolon" -> SubSeq(TimeStr(hour, minute), 1, 2)
                             \o SubSeq(TimeStr(hour, minute), 4, 5)

ParseInit ==
    /\ now = StartTime
    /\ config \in Configs
    /\ Idle
    /\ probe \in [name : PrayerNames, hour : 0..23, minute : 0..59, form : Forms]
    /\ answer = NoAnswer

\* the body of the loop of _normalize_times on the probe
ParseApply ==
    /\ answer = NoAnswer
    /\ answer' = ParseEntry(probe.name, Text(probe.hour, probe.minute, probe.form))
    /\ UNCHANGED <<now, config, probe, loaded, unloading, gen, store, data, timers,
                   plays, refreshes, ops, last>>

ParseNext == ParseApply

ParseSpec == ParseInit /\ [][ParseNext]_vars

(*************************** two config entries ***************************)
\* Two entries of the integration, set up side by side.  store, data and
\* the gen field of timers, coroutines and refreshes are indexed by the key
\* of an entry's store in hass.data[DOMAIN]; probe holds which entries have
\* a store there and which entry the services were registered by (0: none).
Entries == {1, 2}
\* A store kept under one key for all entries; C28 must tell it from
\* StoreKey.
SharedKey(e) == 1
\* hass.data[DOMAIN][entry.entry_id]
StoreKey(e) == e
Present(e) == probe.present[e]
\* the answers of the provider in PairSpec
PairResponses == {QatarMorning, QatarEvening, ServerError}
\* _schedule_next_prayer(hass, entry) of entry e
PairRearm(e, tms, st, dat) ==
    ScheduleNext(Present(e), StoreKey(e), tms, st, dat, config, now)

PairInit ==
    /\ now = StartTime
    /\ config \in {c \in Configs : c.source = SOURCE_QATAR_MOI}
    /\ Idle
    /\ probe = [present |-> [e \in Entries |-> FALSE], svc |-> 0]
    /\ answer = NoAnswer

\* async_setup_entry of entry e; the services are registered by the first
\* entry that finds none
PairSetup(e, resp) ==
    /\ ~Present(e)
    /\ Fetch(config, resp).ok
    /\ NormalizeTimes(Fetch(config, resp).raw, config, now).ok
    /\ LET k   == StoreKey(e)
           dat == [data EXCEPT ![k] =
                      PrayerData(NormalizeTimes(Fetch(config, resp).raw, config,
                                                now).prayers, Day(now))]
           st  == [store EXCEPT ![k] = InitStore]
           r   == ScheduleNext(TRUE, k, timers, st, dat, config, now)
       IN /\ data' = dat
          /\ store' = r.store
          /\ timers' = r.timers
          /\ last' = Last("setup", NoName, NoName, k, NoData)
    /\ probe' = [present |-> [probe.present EXCEPT ![e] = TRUE],
                 svc |-> IF probe.svc = 0 THEN e ELSE probe.svc]
    /\ UNCHANGED <<now, config, answer, loaded, unloading, gen, plays, refreshes, ops>>

\* async_unload_entry of entry e, with no coroutine of the entry running:
\* its timers cancelled, its store popped; the services are removed when no
\* store is left
PairUnload(e) ==
    /\ Present(e)
    /\ ops < MaxPairOps
    /\ ops' = ops + 1
    /\ LET k == StoreKey(e) IN
       /\ \A p \in BagToSet(plays) : p.gen # k
       /\ \A r \in refreshes : r.gen # k
       /\ timers' = Cancel(Cancel(timers, store[k].unsub_timer),
                           store[k].playback_reset_unsub)
       /\ store' = [store EXCEPT ![k] = InitStore]
       /\ data' = [data EXCEPT ![k] = NoData]
       /\ last' = Last("unload", NoName, NoName, k, data[k])
    /\ probe' = [present |-> [probe.present EXCEPT ![e] = FALSE],
                 svc |-> IF \A o \in Entries \ {e} : ~Present(o) THEN 0 ELSE probe.svc]
    /\ UNCHANGED <<now, config, answer, loaded, unloading, gen, plays, refreshes>>

\* _play_azan of entry e up to its await, an audio file and a playback
\* target being there
PairPlay(e, name, origin) ==
    LET k == StoreKey(e) IN
    /\ BagCardinality(plays) < MaxPlays
    /\ IF ~Present(e)
       THEN /\ UNCHANGED <<store, plays>>
            /\ last' = Last("play_no_store", name, origin, k, NoData)
       ELSE IF AlreadyPlayed(data[k], name)
       THEN /\ UNCHANGED <<store, plays>>
            /\ last' = Last("play_guard_skip", name, origin, k, data[k])
       ELSE /\ store' = [store EXCEPT ![k].is_playing = TRUE,
                                      ![k].currently_playing = name]
            /\ plays' = plays (+) One([pc |-> "dispatch", name |-> name, gen |-> k,
                                       origin |-> origin])
            /\ last' = Last("play_dispatch", name, origin, k, data[k])

\* the play_azan service: _play_azan of the entry that registered it
PairManualPlay(name) ==
    /\ probe.svc # 0
    /\ ops < MaxPairOps
    /\ ops' = ops + 1
    /\ PairPlay(probe.svc, name, "manual")
    /\ UNCHANGED <<now, config, probe, answer, loaded, unloading, gen, data, timers,
                   refreshes>>

\* a timer of entry e fires: _prayer_callback with the task it creates,
\* _midnight_refresh, _reset_playing
PairFire(e, tm) ==
    /\ Due(tm)
    /\ tm.gen = StoreKey(e)
    /\ LET k == StoreKey(e) IN
       CASE tm.kind = "prayer" ->
              IF FireGuard(data[k], tm.name)
              THEN LET r == PairRearm(e, timers \ {tm}, store, data)
                   IN /\ timers' = r.timers
                      /\ store' = r.store
                      /\ last' = Last("fire_skip", tm.name, "timer", k, data[k])
                      /\ UNCHANGED <<plays, refreshes>>
              ELSE /\ timers' = timers \ {tm}
                   /\ PairPlay(e, tm.name, "timer")
                   /\ UNCHANGED refreshes
         [] tm.kind = "midnight" ->
              LET r == PairRearm(e, timers \ {tm}, store, data)
              IN /\ Cardinality(refreshes) < MaxRefreshes
                 /\ timers' = r.timers
                 /\ store' = r.store
                 /\ refreshes' = refreshes \cup {[origin |-> "midnight", gen |-> k]}
                 /\ last' = Last("fire_midnight", NoName, "timer", k, data[k])
                 /\ UNCHANGED plays
         [] tm.kind = "reset" ->
              /\ timers' = timers \ {tm}
              /\ store' = IF store[k].currently_playing = tm.name
                          THEN [store EXCEPT ![k].is_playing = FALSE,
                                             ![k].currently_playing = NoName]
                          ELSE store
              /\ last' = Last("fire_reset", tm.name, "timer", k, data[k])
              /\ UNCHANGED <<plays, refreshes>>
    /\ UNCHANGED <<now, config, probe, answer, loaded, unloading, gen, data, ops>>

\* the dispatch of coroutine p of entry e returns (ok) or raises: the mark,
\* the reset timer and the re-arm, or the except branch
PairPlayEnd(e, p, ok) ==
    /\ BagIn(p, plays)
    /\ p.gen = StoreKey(e)
    /\ LET k    == StoreKey(e)
           dat  == IF ok THEN MarkPlayed(data, k, p.name) ELSE data
           tms1 == IF ok THEN Cancel(timers, store[k].playback_reset_unsub) ELSE timers
           id   == FreshId(tms1, store)
           tms2 == IF ok
                   THEN tms1 \cup {[id |-> id, kind |-> "reset", gen |-> k,
                                    name |-> p.name, at |-> now + ResetMinutes]}
                   ELSE tms1
           st   == IF ok
                   THEN [store EXCEPT ![k].playback_reset_unsub = id]
                   ELSE [store EXCEPT ![k].is_playing = FALSE,
                                      ![k].currently_playing = NoName]
           r    == PairRearm(e, tms2, st, dat)
       IN /\ data' = dat
          /\ timers' = r.timers
          /\ store' = r.store
          /\ last' = Last(IF ok THEN "play_succeeded" ELSE "play_failed", p.name,
                          p.origin, k, data[k])
    /\ plays' = plays (-) One(p)
    /\ UNCHANGED <<now, config, probe, answer, loaded, unloading, gen, refreshes, ops>>

\* a refresh of the coordinator of entry e starts: its periodic update, or
\* the refresh_times service, which is the entry's that registered it
PairRefreshStart(e, origin) ==
    /\ Present(e)
    /\ origin = "force" => e = probe.svc
    /\ Cardinality(refreshes) < MaxRefreshes
    /\ ops < MaxPairOps
    /\ ops' = ops + 1
    /\ refreshes' = refreshes \cup {[origin |-> origin, gen |-> StoreKey(e)]}
    /\ last' = Last("refresh_start", NoName, origin, StoreKey(e), data[StoreKey(e)])
    /\ UNCHANGED <<now, config, probe, answer, loaded, unloading, gen, store, data,
                   timers, plays>>

\* the fetch of refresh r of entry e ends with answer resp;
\* handle_refresh_times then re-arms
PairRefreshDone(e, r, resp) ==
    /\ r \in refreshes
    /\ r.gen = StoreKey(e)
    /\ LET k   == StoreKey(e)
           f   == Fetch(config, resp)
           dat == IF f.ok THEN [data EXCEPT ![k] = UpdateData(@, f.raw, config, now)]
                  ELSE data
           s   == IF r.origin = "force" THEN PairRearm(e, timers, store, dat)
                  ELSE [timers |-> timers, store |-> store]
       IN /\ data' = dat
          /\ timers' = s.timers
          /\ store' = s.store
          /\ last' = Last(IF f.ok THEN "refresh_ok" ELSE "fetch_failed", NoName,
                          r.origin, k, data[k])
    /\ refreshes' = refreshes \ {r}
    /\ UNCHANGED <<now, config, probe, answer, loaded, unloading, gen, plays, ops>>

\* the clock moves on once the dispatches and fetches under way have ended
PairTick ==
    /\ plays = EmptyBag
    /\ refreshes = {}
    /\ Tick

PairNext ==
    \/ \E e \in Entries, resp \in PairResponses : PairSetup(e, resp)
    \/ \E e \in Entries : PairUnload(e)
    \/ \E name \in PlayInputs : PairManualPlay(name)
    \/ \E e \in Entries, tm \in timers : PairFire(e, tm)
    \/ \E e \in Entries, p \in BagToSet(plays), ok \in BOOLEAN : PairPlayEnd(e, p, ok)
    \/ \E e \in Entries, origin \in {"periodic", "force"} : PairRefreshStart(e, origin)
    \/ \E e \in Entries, r \in refreshes, resp \in PairResponses :
          PairRefreshDone(e, r, resp)
    \/ PairTick

PairSpec == PairInit /\ [][PairNext]_vars

(************************* one day, left alone ****************************)
\* an AlAdhan answer with sunrise half an hour after Fajr
AladhanShortDawn ==
    Response(200, <<>>, <<>>,
             << <<"Fajr", TimeStr(6, 0)>>, <<"Sunrise", TimeStr(6, 30)>>,
                <<"Dhuhr", TimeStr(12, 0)>>, <<"Asr", TimeStr(15, 15)>>,
                <<"Maghrib", TimeStr(18, 0)>>, <<"Isha", TimeStr(19, 45)>> >>)
\* the provider's answers of the day: their times ascend in canonical order
DayResponses == {QatarMorning, AladhanDay, AladhanShortDawn}
\* configurations with a playback target: the defaults, and Sunrise played
\* at sunrise or up to 45 minutes before it
DayConfigs ==
    {[source |-> SOURCE_QATAR_MOI, enabled |-> DefaultEnabled, offset |-> 0,
      target |-> TRUE]}
    \cup {[source |-> SOURCE_ALADHAN, enabled |-> [n \in PrayerNames |-> TRUE],
           offset |-> o, target |-> TRUE] : o \in {0, 30, MaxOffset}}

\* before async_setup_entry; probe is what the provider answers that day
DayInit ==
    /\ now = StartTime
    /\ config \in DayConfigs
    /\ Idle
    /\ probe \in DayResponses
    /\ answer = NoAnswer

\* the task created by _prayer_callback starts running and finds its audio
\* file
DayPlayStart(p) ==
    /\ BagIn(p, plays)
    /\ p.pc = "created"
    /\ UNCHANGED ops
    /\ PlayBody(plays (-) One(p), p.name, p.origin, TRUE)

\* One setup, then the integration on its own: timers, dispatches that
\* return, the periodic refresh (answered as at setup, or not at all), the
\* clock.  No service call, no unload.
DayNext ==
    \/ Fetch(config, probe).ok /\ SetupEntry(Fetch(config, probe).raw)
    \/ \E p \in BagToSet(plays) : DayPlayStart(p)
    \/ \E p \in BagToSet(plays) : PlaySucceeded(p)
    \/ \E tm \in timers : FirePrayer(tm)
    \/ \E tm \in timers : FireMidnight(tm)
    \/ \E tm \in timers : FireReset(tm)
    \/ RefreshStart("periodic")
    \/ \E r \in refreshes, resp \in {probe, ServerError} :
          RefreshDone(r, Fetch(config, resp).ok, Fetch(config, resp).raw)
    \/ Tick

DaySpec == DayInit /\ [][DayNext]_vars /\ WF_vars(Progress)

(***************************** properties *********************************)
\* the schedule timers: the prayer timers and the midnight-refresh timers
ScheduleTimers == {tm \in timers : tm.kind \in {"prayer", "midnight"}}

\* the schedule timer whose handle the store in hass.data holds
ArmedTimers == {tm \in ScheduleTimers : loaded /\ tm.id = store[gen].unsub_timer}

\* the scheduler is armed as _schedule_next_prayer arms it from the present
\* coordinator.data at the present time
ArmedFromData ==
    \E tm \in ArmedTimers : tm = NewTimer(tm.id, gen, data[gen], config, now)

\* the last step worked on the coordinator of the store in hass.data
OnLiveStore == loaded /\ ~unloading /\ last.gen = gen

\* C1: once the refresh started by the midnight callback has succeeded, the
\* outstanding timer targets the first eligible prayer of the new day's
\* schedule (it is the timer _schedule_next_prayer derives from the fresh
\* data), not one derived from the previous day's schedule.
C1_MidnightRearmsFromFresh ==
    (last.op = "refresh_ok" /\ last.origin = "midnight" /\ OnLiveStore)
        => ArmedFromData

\* the coroutines suspended in the dispatch call for a prayer name
Dispatching(name) ==
    {p \in BagToSet(plays) : p.pc = "dispatch" /\ p.name = name}

\* C2: played-once per day: the playback capability is invoked at most once
\* for a prayer name, so no two non-test playback attempts for the same name
\* are ever inside the dispatch call together, whether they come from the
\* timer or from a manual play request.
C2_PlayedOncePerDay ==
    \A n \in PrayerNames :
        /\ Cardinality(Dispatching(n)) <= 1
        /\ \A p \in Dispatching(n) : CopiesIn(p, plays) <= 1

\* the outcomes that end a playback attempt
FinishedOps ==
    {"play_succeeded", "play_failed", "play_no_audio", "play_no_target",
     "play_guard_skip"}

\* C3: the loop is never stuck: once the playback attempt started by a prayer
\* timer has finished, whatever its outcome, a timer for the next prayer or
\* for the midnight refresh is outstanding again.
C3_LoopNeverStuck ==
    (last.op \in FinishedOps /\ last.origin = "timer" /\ OnLiveStore)
        => ArmedTimers # {}

\* C4: no two schedule timers (prayer or midnight-refresh) of the config
\* entry are ever outstanding at once.
C4_OneScheduleTimer == Cardinality(ScheduleTimers) <= 1

\* C5: on a successful dispatch of a non-test prayer the name is added to
\* played_today, and the re-arm that ends the attempt reads played_today with
\* the name already in it: the timer left armed is the one
\* _schedule_next_prayer derives from the marked data.
C5_MarkedBeforeRearm ==
    (last.op = "play_succeeded" /\ last.name # "Test" /\ data[last.gen] # NoData)
        => /\ last.name \in data[last.gen].played
           /\ (loaded /\ last.gen = gen) => ArmedFromData

\* a successful manual play ahead of time: a re-arm reading played_today as it
\* was before the mark would have selected the prayer just played
C5_Witness ==
    /\ last.op = "play_succeeded"
    /\ last.name # "Test"
    /\ loaded /\ last.gen = gen
    /\ last.name \notin last.played
    /\ last.name \in data[gen].played
    /\ ArmedFromData
    /\ LET before == [data[gen] EXCEPT !.played = last.played]
           i == NextPrayer(before, config, now)
       IN i # 0 /\ before.prayers[i].name = last.name

\* C6: when a playback dispatch fails, played_today is left exactly as it
\* was and the playing status is cleared; an attempt that ends for want of an
\* audio file leaves played_today as it was too.
C6_FailureLeavesPlayed ==
    /\ (last.op = "play_failed" /\ data[last.gen] # NoData)
          => /\ data[last.gen].played = last.played
             /\ ~store[last.gen].is_playing
             /\ store[last.gen].currently_playing = NoName
    /\ (last.op = "play_no_audio" /\ data[last.gen] # NoData)
          => data[last.gen].played = last.played

\* the dispatch of a scheduled prayer has just failed
C6_Witness ==
    /\ last.op = "play_failed"
    /\ last.name \in PrayerNames
    /\ last.origin = "timer"
    /\ loaded /\ last.gen = gen
    /\ last.name \notin data[gen].played
    /\ ~store[gen].is_playing

\* C7: fire guard: when a prayer timer fires and its target is already in
\* played_today, no playback attempt is started, played_today is unchanged
\* and the scheduler is re-armed in the same callback.
C7_FireGuard ==
    [][last'.op = "fire_skip"
          => /\ plays' = plays
             /\ \A g \in Gens : data'[g] # NoData => data'[g] = data[g]
             /\ loaded' => ArmedFromData']_vars

\* a prayer timer has just fired on a target that was in played_today
C7_Witness ==
    /\ last.op = "fire_skip"
    /\ last.name \in last.played
    /\ loaded
    /\ ArmedFromData

\* C8: played-set guard: in every state where no playback attempt is in
\* progress, the target of an outstanding prayer timer is not in the
\* played_today of the schedule it was armed from.
C8_TimerTargetNotPlayed ==
    plays = EmptyBag
        => \A tm \in timers :
              (tm.kind = "prayer" /\ data[tm.gen] # NoData)
                  => tm.name \notin data[tm.gen].played

\* C9: day rollover: when a refresh produces a schedule whose date differs
\* from the previous schedule's date, the new played_today is empty.
C9_RolloverClearsPlayed ==
    (last.op = "refresh_ok" /\ data[last.gen] # NoData
        /\ data[last.gen].date # last.date)
        => data[last.gen].played = {}

\* a refresh has just replaced a schedule with a non-empty played_today by
\* the schedule of another day
C9_Witness ==
    /\ last.op = "refresh_ok"
    /\ data[last.gen] # NoData
    /\ data[last.gen].date # last.date
    /\ last.played # {}
    /\ data[last.gen].played = {}

\* C10: intra-day refresh: when a refresh produces a schedule with the same
\* date as the previous one, played_today is carried over unchanged; and the
\* scheduler never dispatches a prayer that is in played_today.
C10_SameDayCarriesPlayed ==
    /\ (last.op = "refresh_ok" /\ data[last.gen] # NoData
           /\ data[last.gen].date = last.date)
          => data[last.gen].played = last.played
    /\ (last.op = "play_dispatch" /\ last.origin = "timer")
          => last.name \notin last.played

\* a same-day refresh has just carried a non-empty played_today over
C10_Witness ==
    /\ last.op = "refresh_ok"
    /\ data[last.gen] # NoData
    /\ data[last.gen].date = last.date
    /\ last.played # {}
    /\ data[last.gen].played = last.played

\* the provider failures: a status outside 2xx, no header/cell pair in the
\* Qatar MOI page, a prayer missing from the AlAdhan timings
FetchFails(cfg, resp) ==
    \/ resp.status \notin 200..299
    \/ /\ cfg.source = SOURCE_QATAR_MOI
       /\ (SelectSeq(resp.headers, NonEmpty) = <<>> \/ resp.cells = <<>>)
    \/ /\ cfg.source = SOURCE_ALADHAN
       /\ ~(PrayerNames \subseteq Keys(resp.timings))

\* C11: when a provider fetch fails, the refresh fails: the previous schedule
\* and its played_today stay as they were, and a timer armed in that step is
\* the one _schedule_next_prayer derives from the previous schedule.
C11_FetchFailureKeepsSchedule ==
    [][\A r \in refreshes, resp \in Responses :
          (/\ FetchFails(config, resp)
           /\ RefreshDone(r, Fetch(config, resp).ok, Fetch(config, resp).raw))
             => /\ \A g \in Gens : data'[g] # NoData => data'[g] = data[g]
                /\ \A tm \in timers' \ timers :
                      loaded /\ tm = NewTimer(tm.id, gen, data[gen], config, now)]_vars

\* a forced refresh has just failed in its fetch, with prayers already played
C11_Witness ==
    /\ last.op = "fetch_failed"
    /\ last.origin = "force"
    /\ last.played # {}
    /\ loaded /\ last.gen = gen
    /\ data[gen].played = last.played
    /\ ArmedFromData


\* the outcomes of _play_azan up to its first await
HeadOps ==
    {"play_guard_skip", "play_no_audio", "play_no_target", "play_dispatch"}

\* C21: a Test play is never stopped by the played-set guard and never
\* changes played_today, in which the name Test never is; a manual play of a
\* prayer that is in played_today ends at the guard and dispatches nothing.
C21_TestOutsidePlayedSet ==
    /\ \A g \in Gens : data[g] # NoData => "Test" \notin data[g].played
    /\ last.op = "play_guard_skip" => (last.name # "Test" /\ last.name \in last.played)
    /\ (last.name = "Test" /\ last.op \in HeadOps \cup FinishedOps
           /\ data[last.gen] # NoData)
          => data[last.gen].played = last.played
    /\ (last.op \in HeadOps /\ last.origin = "manual" /\ last.name # "Test"
           /\ last.name \in last.played)
          => last.op = "play_guard_skip"
\* a Test play has been dispatched and has returned on a day on which a
\* prayer was played already
C21_Witness ==
    /\ last.op = "play_succeeded"
    /\ last.name = "Test"
    /\ last.played # {}
    /\ data[last.gen] # NoData
    /\ data[last.gen].played = last.played
\* a manual play of a played prayer has ended at the guard
C21_WitnessGuard ==
    /\ last.op = "play_guard_skip"
    /\ last.origin = "manual"
    /\ last.name \in last.played

\* C22: when a manual play request (Test or a prayer) has completed, whatever
\* its outcome, the scheduler has been re-armed: the timer of the store is
\* the one _schedule_next_prayer derives from the schedule as it is now
\* (no timer being due at that moment).
C22_ManualPlayRearms ==
    (/\ last.op \in FinishedOps /\ last.origin = "manual" /\ OnLiveStore
     /\ \A tm \in timers : tm.at > now)
        => ArmedFromData

\* the prayer timers
PrayerTimers == {tm \in timers : tm.kind = "prayer"}

\* C23: a fetch that does not return stalls the refresh only.  The step that
\* starts a fetch (periodic refresh, force_refresh, midnight callback) leaves
\* every armed prayer timer outstanding, and while a fetch is pending a
\* prayer timer whose time has come can fire.
C23_HungFetchStallsRefreshOnly ==
    /\ [][(refreshes' \ refreshes # {})
             => \A tm \in PrayerTimers :
                   \E t2 \in PrayerTimers' :
                      t2.name = tm.name /\ t2.at = tm.at /\ t2.gen = tm.gen]_vars
    /\ [](\A tm \in PrayerTimers :
             (refreshes # {} /\ tm.at <= now /\ BagCardinality(plays) < MaxPlays)
                => ENABLED FirePrayer(tm))
\* a prayer timer has fired and its playback has been dispatched while a
\* fetch was pending
C23_Witness ==
    /\ refreshes # {}
    /\ last.op = "play_dispatch"
    /\ last.origin = "timer"
    /\ \E p \in BagToSet(plays) : p.pc = "dispatch" /\ p.name = last.name

\* no playback attempt and no refresh is in progress, no unload, and no
\* timer is waiting to be fired
Quiet ==
    /\ plays = EmptyBag
    /\ refreshes = {}
    /\ loaded /\ ~unloading
    /\ \A tm \in timers : tm.at > now

\* C24: after every refresh that replaced the schedule (the periodic one
\* included), once no playback attempt or refresh is in progress, the armed
\* timer is the one the selection yields on the schedule as it is now.
C24_RefreshRearms ==
    (last.op = "refresh_ok" /\ last.gen = gen /\ Quiet) => ArmedFromData

\* C25: no crash loop: after the dispatch of a timer-started attempt has
\* failed, leaving the prayer unmarked, the re-arm leaves a timer that is
\* strictly after now, so not the failed prayer at its passed time: it is
\* for a prayer whose time is still to come or for the midnight refresh.
C25_NoCrashLoop ==
    (last.op = "play_failed" /\ last.origin = "timer" /\ loaded)
        => /\ ArmedFromData
           /\ \A tm \in ArmedTimers :
                 /\ tm.at > now
                 /\ tm.kind \in {"prayer", "midnight"}
                 /\ \A i \in 1..Len(data[gen].prayers) :
                       (tm.kind = "prayer" /\ data[gen].prayers[i].name = tm.name)
                          => TargetTime(config, data[gen].prayers[i]) = tm.at
\* the dispatch of Fajr has failed, Fajr is not marked, and the timer armed
\* is for a later prayer
C25_Witness ==
    /\ last.op = "play_failed" /\ last.origin = "timer" /\ OnLiveStore
    /\ last.name = "Fajr"
    /\ "Fajr" \notin data[gen].played
    /\ \E tm \in ArmedTimers : tm.kind = "prayer" /\ tm.name # "Fajr" /\ tm.at > now

(******************* properties of one refresh ****************************)
\* the raw mapping the fetch of the probe returned
ProbeRaw == Fetch(config, probe.resp).raw
Fetched == answer # NoAnswer /\ Fetch(config, probe.resp).ok

\* the entries of a raw mapping under a recognized name
Recognized(raw) == {i \in 1..Len(raw) : raw[i][1] \in PrayerNames}
\* an entry whose time string does not give an hour and a minute
Unparseable(raw, i) == ParseEntry(raw[i][1], raw[i][2]).st # "ok"
\* the names of a schedule
Names(prayers) == {prayers[i].name : i \in 1..Len(prayers)}

\* C12: a time string that cannot be parsed (no colon pair, non-numeric,
\* hour or minute out of range) only drops its own entry: the refresh
\* succeeds and the schedule holds exactly the remaining recognized prayers.
C12_BadTimeOnlyDropsEntry ==
    (/\ Fetched
     /\ \E i \in Recognized(ProbeRaw) : Unparseable(ProbeRaw, i))
        => /\ answer.ok
           /\ answer.data # NoData
           /\ Names(answer.data.prayers) =
                 {ProbeRaw[i][1] : i \in {j \in Recognized(ProbeRaw) :
                                              ~Unparseable(ProbeRaw, j)}}

\* C13: a raw mapping that yields no recognized prayer makes the refresh
\* fail, and coordinator.data stays what it was.
C13_NoPrayersFailsRefresh ==
    (/\ Fetched
     /\ \A i \in Recognized(ProbeRaw) : Unparseable(ProbeRaw, i))
        => /\ ~answer.ok
           /\ answer.data = probe.old

\* C16: the schedule a refresh builds lists its prayers in the canonical
\* order Fajr, Sunrise, Dhuhr, Asr, Maghrib, Isha whatever the order of the
\* raw mapping, each name at most once, and no name outside these six.
C16_ScheduleCanonical ==
    (Fetched /\ answer.ok) =>
        LET prayers == answer.data.prayers IN
        /\ \A i \in 1..Len(prayers) : prayers[i].name \in PrayerNames
        /\ \A i, j \in 1..Len(prayers) :
              i < j => OrderIndex(prayers[i].name) < OrderIndex(prayers[j].name)
\* the page with shuffled columns and Fajr twice gives all six prayers
C16_Witness ==
    /\ Fetched /\ answer.ok
    /\ probe.resp = QatarShuffled
    /\ ProbeRaw[1][1] = "Isha"
    /\ Len(ProbeRaw) = 7
    /\ [i \in 1..Len(answer.data.prayers) |-> answer.data.prayers[i].name] = PRAYER_ORDER

\* C18: the afternoon rule is applied to the Qatar MOI source only; a time
\* from AlAdhan is taken as given, so the hour and minute of every prayer of
\* an AlAdhan schedule are those of its timing.
C18_PmRuleOnlyForQatar ==
    (Fetched /\ answer.ok /\ config.source = SOURCE_ALADHAN) =>
        \A i \in 1..Len(answer.data.prayers) :
           LET p == answer.data.prayers[i] IN
           TimeStr(p.hour, p.minute) = TimeClean(Lookup(probe.resp.timings, p.name))

(********************* properties of one arming ***************************)
\* _schedule_next_prayer has just run on the store in hass.data
Armed == last.op = "arm" /\ loaded
\* the prayers of the schedule that can still be selected now
Selectable ==
    {i \in 1..Len(data[gen].prayers) :
        /\ data[gen].prayers[i].enabled
        /\ data[gen].prayers[i].name \notin data[gen].played
        /\ TargetTime(config, data[gen].prayers[i]) > now}
\* the schedule of the morning example: Fajr 05:00, Sunrise 06:30 (off),
\* Dhuhr 12:00, nothing played, at 05:30
MorningExample ==
    /\ data[gen].prayers = NormalizeTimes(RawMorning, config, now).prayers
    /\ config.enabled = DefaultEnabled
    /\ data[gen].played = {}
    /\ now % MinutesPerDay = 5 * 60 + 30

\* C14: the armed prayer is the first of the schedule, in canonical order,
\* that is enabled, not played and whose time less its offset is strictly
\* after now; a prayer whose effective time equals now is never the armed
\* one; in the morning example the armed prayer is Dhuhr.
C14_SelectsFirstEligible ==
    Armed =>
       /\ Selectable # {} =>
             \E tm \in timers :
                /\ timers = {tm}
                /\ tm.kind = "prayer"
                /\ tm.name = data[gen].prayers[Min(Selectable)].name
                /\ \A j \in Selectable :
                      OrderIndex(tm.name) <= OrderIndex(data[gen].prayers[j].name)
       /\ \A tm \in timers : \A i \in 1..Len(data[gen].prayers) :
             (tm.kind = "prayer" /\ tm.name = data[gen].prayers[i].name)
                => /\ TargetTime(config, data[gen].prayers[i]) # now
                   /\ i \in Selectable
       /\ MorningExample => \E tm \in timers : tm.kind = "prayer" /\ tm.name = "Dhuhr"
C14_Witness ==
    /\ Armed
    /\ MorningExample
    /\ \E tm \in timers : tm.name = "Dhuhr"
\* a prayer whose effective time is now is passed over for a later one
C14_WitnessEqual ==
    /\ Armed
    /\ \E i \in 1..Len(data[gen].prayers) :
          /\ data[gen].prayers[i].enabled
          /\ data[gen].prayers[i].name \notin data[gen].played
          /\ TargetTime(config, data[gen].prayers[i]) = now
          /\ \E tm \in timers :
                tm.kind = "prayer" /\ OrderIndex(tm.name) > i

\* C15: when no prayer can be selected (all passed, disabled or played, or
\* an empty schedule) exactly one timer is armed: the midnight refresh at
\* 00:01 of the next calendar day, which is after now.
C15_MidnightWhenNothingSelectable ==
    (Armed /\ Selectable = {}) =>
        \E tm \in timers :
           /\ timers = {tm}
           /\ tm.kind = "midnight"
           /\ tm.at \div MinutesPerDay = (now \div MinutesPerDay) + 1
           /\ tm.at % MinutesPerDay = 1
           /\ tm.at > now
\* after the last prayer, one minute before midnight
C15_Witness ==
    /\ Armed /\ Selectable = {}
    /\ data[gen].prayers # <<>> /\ data[gen].played = {}
    /\ now % MinutesPerDay = 23 * 60 + 59
    /\ \E tm \in timers : tm.kind = "midnight" /\ tm.at = now + 2
\* the empty schedule, at 00:01 itself
C15_WitnessEmpty ==
    /\ Armed
    /\ data[gen].prayers = <<>>
    /\ now % MinutesPerDay = 1
    /\ \E tm \in timers : tm.kind = "midnight" /\ tm.at = now + MinutesPerDay

\* C20: a prayer timer is armed for the prayer's time less the configured
\* offset when the prayer is Sunrise and for the prayer's time exactly when
\* it is any other prayer, for every offset from 0 to 45.
C20_OffsetOnlyForSunrise ==
    Armed =>
       \A tm \in timers : \A i \in 1..Len(data[gen].prayers) :
          (tm.kind = "prayer" /\ tm.name = data[gen].prayers[i].name)
             => /\ config.offset \in 0..MaxOffset
                /\ tm.name = "Sunrise" => tm.at = data[gen].prayers[i].time - config.offset
                /\ tm.name # "Sunrise" => tm.at = data[gen].prayers[i].time
\* Sunrise armed 45 minutes early
C20_Witness ==
    /\ Armed
    /\ config.offset = MaxOffset
    /\ \E tm \in timers : \E i \in 1..Len(data[gen].prayers) :
          /\ tm.kind = "prayer" /\ tm.name = "Sunrise"
          /\ data[gen].prayers[i].name = "Sunrise"
          /\ tm.at = data[gen].prayers[i].time - 45
\* another prayer armed at its own time under a non-zero offset
C20_WitnessOther ==
    /\ Armed
    /\ config.offset = 30
    /\ \E tm \in timers : \E i \in 1..Len(data[gen].prayers) :
          /\ tm.kind = "prayer" /\ tm.name = "Dhuhr"
          /\ data[gen].prayers[i].name = "Dhuhr"
          /\ tm.at = data[gen].prayers[i].time

(******************* properties of one parsed time ************************)
\* the probe was a time text with a colon and it has been parsed
ParsedTime == answer # NoAnswer /\ probe.form # "nocolon"
Afternoon == {"Asr", "Maghrib", "Isha"}

\* C17: for Asr, Maghrib and Isha an hour below 10 has 12 added (03:00 Isha
\* gives hour 15) and an hour of 10 or more is kept; for Fajr, Sunrise and
\* Dhuhr the hour is never changed (03:00 Fajr stays hour 3).
C17_PmRuleByName ==
    ParsedTime =>
       /\ answer.st = "ok"
       /\ (probe.name \in Afternoon /\ probe.hour < 10) => answer.hour = probe.hour + 12
       /\ (probe.name \in Afternoon /\ probe.hour >= 10) => answer.hour = probe.hour
       /\ probe.name \notin Afternoon => answer.hour = probe.hour
\* 03:00 Isha
C17_Witness ==
    /\ ParsedTime
    /\ probe.name = "Isha" /\ probe.hour = 3 /\ probe.minute = 0
    /\ answer.hour = 15

C19_WitnessSame ==
    /\ answer # NoAnswer
    /\ probe = [name |-> "Dhuhr", hour |-> 23, minute |-> 59, form |-> "plain"]
    /\ answer = [st |-> "ok", hour |-> 23, minute |-> 59]
(************************* end to end *************************************)
\* the schedule as name, hour and minute
Listing(prayers) ==
    [i \in 1..Len(prayers) |-> <<prayers[i].name, prayers[i].hour, prayers[i].minute>>]
\* the example page from Qatar MOI, all prayers enabled, nothing played, at
\* a time before 05:12
ExampleBuilt ==
    /\ probe = QatarExample
    /\ config.source = SOURCE_QATAR_MOI
    /\ \A n \in PrayerNames : config.enabled[n]
    /\ data[gen].played = {}
    /\ now % MinutesPerDay < 5 * 60 + 12

\* C26: the mapping Fajr 05:12, Dhuhr 12:05, Asr 03:30, Maghrib 06:10, Isha
\* 07:45 from Qatar MOI, all enabled, built before 05:12, gives the schedule
\* Fajr 05:12, Dhuhr 12:05, Asr 15:30, Maghrib 18:10, Isha 19:45 in this
\* order, and the prayer armed is Fajr.
C26_EndToEnd ==
    ExampleBuilt =>
       /\ Listing(data[gen].prayers) =
             << <<"Fajr", 5, 12>>, <<"Dhuhr", 12, 5>>, <<"Asr", 15, 30>>,
                <<"Maghrib", 18, 10>>, <<"Isha", 19, 45>> >>
       /\ \A i \in 1..Len(data[gen].prayers) : data[gen].prayers[i].enabled
       /\ Armed => \E tm \in timers :
                      /\ timers = {tm}
                      /\ tm.kind = "prayer" /\ tm.name = "Fajr"
                      /\ tm.at = Day(now) * MinutesPerDay + 5 * 60 + 12
\* the example has been built at 04:00 and Fajr is armed
C26_Witness ==
    /\ ExampleBuilt /\ Armed
    /\ now % MinutesPerDay = 4 * 60
    /\ Len(data[gen].prayers) = 5
    /\ \E tm \in timers : tm.name = "Fajr"

(***************************** arming twice *******************************)
\* what a timer is for
Target(tm) == [kind |-> tm.kind, name |-> tm.name, at |-> tm.at]

\* C27: arming is idempotent: a second _schedule_next_prayer right after the
\* first, at the same now and with schedule, played_today and configuration
\* unchanged, leaves exactly one timer, for the same prayer (or the same
\* midnight refresh) at the same time.
C27_ArmIdempotent ==
    [][(last.op = "arm" /\ last'.op = "arm")
          => /\ Cardinality(timers') = 1
             /\ {Target(tm) : tm \in timers'} = {Target(tm) : tm \in timers}
             /\ store'[gen].unsub_timer \in {tm.id : tm \in timers'}]_vars
\* armed twice, one prayer timer outstanding
C27_Witness ==
    /\ last.op = "arm" /\ ops = 2
    /\ \E tm \in timers : timers = {tm} /\ tm.kind = "prayer" /\ tm.name = "Dhuhr"

(**************************** disabled prayers ****************************)
\* C29: a prayer whose toggle is off is never the target of an armed prayer
\* timer, and no step made by a timer (the fire, its guard, the dispatch and
\* its outcome) is for such a prayer.
C29_DisabledNeverScheduled ==
    /\ \A tm \in timers : tm.kind = "prayer" => config.enabled[tm.name]
    /\ (last.origin = "timer" /\ last.op # "fire_reset" /\ last.name \in PrayerNames)
          => config.enabled[last.name]
\* a prayer timer is armed for a later prayer although a disabled, unplayed
\* prayer of the live schedule comes before it and is still ahead
C29_Witness ==
    /\ loaded
    /\ \E tm \in timers :
          /\ tm.kind = "prayer" /\ tm.gen = gen
          /\ \E i \in 1..Len(data[gen].prayers) :
                /\ ~data[gen].prayers[i].enabled
                /\ data[gen].prayers[i].name \notin data[gen].played
                /\ TargetTime(config, data[gen].prayers[i]) > now
                /\ TargetTime(config, data[gen].prayers[i]) < tm.at
\* a timer has fired and dispatched a prayer while another prayer of the
\* schedule is disabled and was never played
C29_WitnessFired ==
    /\ last.op = "play_dispatch" /\ last.origin = "timer"
    /\ \E i \in 1..Len(data[last.gen].prayers) :
          /\ ~data[last.gen].prayers[i].enabled
          /\ data[last.gen].prayers[i].name \notin data[last.gen].played

(************************** order of selection ****************************)
\* C30: the prayer a call of _schedule_next_prayer arms a timer for has the
\* least effective time among the eligible prayers (enabled, not played,
\* effective time after now), whatever the schedule and the Sunrise offset:
\* no eligible prayer with an earlier effective time is passed over.
C30_SelectsEarliest ==
    Armed =>
       \A tm \in timers : tm.kind = "prayer" =>
          \A i \in 1..Len(data[gen].prayers) :
             Eligible(data[gen], config, now, i)
                => TargetTime(config, data[gen].prayers[i]) >= tm.at

(*************************** two config entries ***************************)
\* what belongs to the entry whose store has key k: its store, its
\* coordinator data (with played_today) and its timers
Owned(k, st, dat, tms) ==
    [store |-> st[k], data |-> dat[k], timers |-> {tm \in tms : tm.gen = k}]

\* C28: with two entries set up, every operation on one of them (arm, fire,
\* mark played, refresh, unload, a service call served by it) leaves the
\* played_today and the timers of the other as they were.
C28_InstancesIndependent ==
    [][\A e \in Entries : \A o \in Entries \ {e} :
          (last' # NoLast /\ last'.gen = StoreKey(e))
             => Owned(StoreKey(o), store', data', timers')
                   = Owned(StoreKey(o), store, data, timers)]_vars
\* entry 2 has just marked a prayer played while entry 1, set up as well, has
\* played nothing and has a prayer timer armed
C28_Witness ==
    /\ Present(1) /\ Present(2)
    /\ last.op = "play_succeeded" /\ last.gen = StoreKey(2)
    /\ last.name \in data[StoreKey(2)].played
    /\ data[StoreKey(1)].played = {}
    /\ \E tm \in timers : tm.gen = StoreKey(1) /\ tm.kind = "prayer"

(******************************* after unload *****************************)
\* C37: once async_unload_entry has completed, no prayer, midnight or reset
\* timer of the store it removed is outstanding, also when a dispatch was in
\* flight during the unload and ends afterwards: every outstanding timer
\* belongs to the store that is in hass.data.
C37_UnloadLeavesNoTimer ==
    ~unloading => \A tm \in timers : loaded /\ tm.gen = gen

(***************************** forced refresh *****************************)
\* the steps a refresh ends with
RefreshOps == {"refresh_ok", "refresh_failed", "fetch_failed"}

\* C32: the refresh_times service re-arms only after its refresh has ended:
\* starting the refresh changes no timer, and when the refresh has ended,
\* with or without success, the timer the store holds is the one
\* _schedule_next_prayer derives from the coordinator data in effect then.
C32_ForceRefreshRearmsAfter ==
    /\ [][(\E r \in refreshes' \ refreshes : r.origin = "force")
             => UNCHANGED <<timers, store, data>>]_vars
    /\ [][(last'.op \in RefreshOps /\ last'.origin = "force" /\ loaded')
             => ArmedFromData']_vars
\* a forced refresh has replaced the morning schedule and the timer is armed
\* for a prayer only the new schedule has
C32_Witness ==
    /\ last.op = "refresh_ok" /\ last.origin = "force" /\ loaded
    /\ \E tm \in ArmedTimers : tm.kind = "prayer" /\ tm.name = "Isha"
\* a forced refresh has failed and the timer is armed from the schedule kept
C32_WitnessFailed ==
    /\ last.op = "fetch_failed" /\ last.origin = "force" /\ loaded
    /\ ArmedFromData

(*************************** the sensors **********************************)
\* NextPrayerSensor.native_value: the name of the first prayer of
\* coordinator.data that is enabled and whose time is after t; None when
\* there is no data or no such prayer
GetNextPrayer(d, t) ==
    IF d = NoData THEN NoName
    ELSE LET idx == {i \in 1..Len(d.prayers) :
                        d.prayers[i].enabled /\ d.prayers[i].time > t}
         IN IF idx = {} THEN NoName ELSE d.prayers[Min(idx)].name

\* C33: the next-prayer sensor agrees with the scheduler: when the timer the
\* store holds is the one derived from the present data at the present time,
\* the sensor shows the prayer that timer is armed for, and shows none when
\* it is the midnight timer.
C33_SensorAgreesWithScheduler ==
    \A tm \in ArmedTimers :
       tm = NewTimer(tm.id, gen, data[gen], config, now)
          => GetNextPrayer(data[gen], now)
                = (IF tm.kind = "prayer" THEN tm.name ELSE NoName)

(***************************** the stop command ***************************)
StopOps == {"stop_ok", "stop_failed"}

\* C36: the stop command leaves the playing flag and the currently-playing
\* name of the store cleared whether its dispatch succeeds or raises, and
\* changes neither the coordinator data (schedule, played_today) nor any
\* timer nor the timer handles of the store.
C36_StopClearsStatusOnly ==
    [][last'.op \in StopOps =>
          /\ ~store'[gen].is_playing
          /\ store'[gen].currently_playing = NoName
          /\ store'[gen].unsub_timer = store[gen].unsub_timer
          /\ store'[gen].playback_reset_unsub = store[gen].playback_reset_unsub
          /\ UNCHANGED <<data, timers, plays, refreshes, loaded, gen>>]_vars
\* the dispatch of a stop raised while a prayer was playing: the status is
\* idle again, the prayer stays played and the schedule timer armed
C36_Witness ==
    /\ last.op = "stop_failed" /\ last.name \in PrayerNames
    /\ last.name \in data[gen].played
    /\ ~store[gen].is_playing /\ store[gen].currently_playing = NoName
    /\ ArmedFromData

(***************************** the status *********************************)
\* A faulty sensor that looks at the playing flag first; C34 must tell it
\* from NativeValue.
NativeValuePlayingFirst(st, downloading) ==
    IF st.is_playing THEN "playing"
    ELSE IF downloading THEN "downloading" ELSE "idle"
\* AzanStatusSensor.native_value on store st; downloading is
\* store["is_downloading"], which _download_audio_background sets while it
\* runs and only this sensor reads: the download goes on beside every step
\* modelled here, so in each state the flag may be set or not
NativeValue(st, downloading) ==
    IF downloading THEN "downloading"
    ELSE IF st.is_playing THEN "playing" ELSE "idle"

\* C34: in every store the playing flag is set exactly when a
\* currently-playing name is set, and the status sensor shows downloading
\* when a download is in progress, otherwise playing when the playing flag is
\* set, otherwise idle.
C34_StatusConsistent ==
    \A g \in Gens :
       /\ store[g].is_playing <=> store[g].currently_playing # NoName
       /\ NativeValue(store[g], TRUE) = "downloading"
       /\ NativeValue(store[g], FALSE) = "playing" <=> store[g].currently_playing # NoName
       /\ NativeValue(store[g], FALSE) = "idle" <=> store[g].currently_playing = NoName
\* a second play has started while the first was shown as playing
C34_Witness ==
    /\ loaded
    /\ store[gen].is_playing /\ store[gen].currently_playing = "Test"
    /\ \E tm \in timers : tm.kind = "reset" /\ tm.gen = gen /\ tm.name \in PrayerNames
    /\ NativeValue(store[gen], FALSE) = "playing"

(************************* the playing flag clears ************************)
\* the status of the store in hass.data shows playing
Playing == loaded /\ store[gen].is_playing
\* a reset timer of that store is outstanding for a time the clock of the
\* model does not reach
ResetBeyondHorizon ==
    \E tm \in timers : tm.kind = "reset" /\ tm.gen = gen /\ tm.at > LastInstant

\* C35: whenever the playing flag is set it is cleared again later, by the
\* reset timer or by the except branch, whatever else happens: a second play
\* before the reset timer of the first, or an attempt that ends because no
\* playback target is configured.
C35_PlayingEventuallyCleared == Playing ~> (~Playing \/ ResetBeyondHorizon)

(************************* the day of the setup ***************************)
\* prayer i of the live schedule is enabled and its effective time is after
\* the time of the setup
DueAtSetup(i) ==
    /\ data[gen].prayers[i].enabled
    /\ TargetTime(config, data[gen].prayers[i]) > StartTime

\* C31: left alone on the day of the setup, with dispatches that succeed, an
\* audio file, a playback target and times that ascend in canonical order,
\* every enabled prayer whose effective time is after the setup is
\* dispatched that day, once and in canonical order: a dispatch is for a
\* prayer not yet played while no other dispatch is under way, and every
\* prayer before it that was due at the setup has been played.
C31_DayPlaysEveryPrayerInOrder ==
    /\ \A n \in PrayerNames :
          (/\ loaded /\ now = StartTime
           /\ \E i \in 1..Len(data[gen].prayers) :
                 data[gen].prayers[i].name = n /\ DueAtSetup(i))
             ~> (last.op = "play_dispatch" /\ last.name = n /\ Day(now) = Day(StartTime))
    /\ [][(last'.op = "play_dispatch" /\ Day(now') = Day(StartTime))
             => /\ last'.name \notin data[gen].played
                /\ \A p \in BagToSet(plays) : p.pc = "created"
                /\ \A i, j \in 1..Len(data[gen].prayers) :
                      (i < j /\ data[gen].prayers[j].name = last'.name /\ DueAtSetup(i))
                         => data[gen].prayers[i].name \in data[gen].played]_vars

====
